---- MODULE Spec2Model ----
(***************************************************************************)
(* Steam Sales Bot (src/main.py): the promotion filter get_free_games, the *)
(* ledger of games already sent with its JSON store, the registration of   *)
(* recipients, and the check runs (scheduled_check_sync, send_free_games)  *)
(* that mark new games and notify the registered chats.                    *)
(***************************************************************************)
EXTENDS Integers, Sequences, FiniteSets, TLC

\* ------------------------------------------------------------ bounds
\* Longest item list of a catalog snapshot.
MaxItems == 2
\* Number of mark_game_as_sent calls (clock ticks) explored.
MaxClock == 2

\* ------------------------------------------------- program constants
\* discount_percent == 100
FullDiscount == 100
\* original_price > 100
MinOriginalPrice == 100
\* original_price / 100
CentsPerDollar == 100

\* known_f2p_games of _verify_real_promotion
known_f2p_games ==
  {"730", "440", "570", "238960", "386360", "444090",
   "578080", "1222670", "359550", "252490"}

\* ------------------------------------------------------- JSON values
\* A JSON object is a function from its keys; dict.get(key, default).
Get(obj, key, default) == IF key \in DOMAIN obj THEN obj[key] ELSE default

\* str(item.get('id', '')): the catalog gives integer ids; a missing id
\* stays the empty string.
StrOfId(item) == IF "id" \in DOMAIN item THEN ToString(item["id"]) ELSE ""

\* item.get('name', f'Jeu {app_id}')
NameOf(item) == IF "name" \in DOMAIN item THEN item["name"]
                ELSE "Jeu " \o StrOfId(item)

\* original_price / 100 as dollars and hundredths (two decimals)
Dollars(minor) == [units |-> minor \div CentsPerDollar,
                   hundredths |-> minor % CentsPerDollar]

\* --------------------------------------------------- the catalog filter
\* is_game_already_sent: app_id in self.sent_games.get("sent_games", {})
is_game_already_sent_buggy(ledger, app_id) == FALSE
is_game_already_sent(ledger, app_id) == app_id \in DOMAIN ledger

\* _verify_real_promotion: False for a known free-to-play id
verify_real_promotion_buggy(app_id) == TRUE
verify_real_promotion(app_id) == app_id \notin known_f2p_games

\* The strict numeric rule of get_free_games
StrictPromotion_ge(item) ==
  /\ Get(item, "discount_percent", 0) = FullDiscount
  /\ Get(item, "final_price", 0) = 0
  /\ Get(item, "original_price", 0) >= MinOriginalPrice
StrictPromotion(item) ==
  /\ Get(item, "discount_percent", 0) = FullDiscount
  /\ Get(item, "final_price", 0) = 0
  /\ Get(item, "original_price", 0) > MinOriginalPrice

\* The dict appended to free_games for an item
Candidate_minor_units(item) ==
  [app_id |-> StrOfId(item),
   name |-> NameOf(item),
   url |-> "https://store.steampowered.com/app/" \o StrOfId(item) \o "/",
   initial_price |-> [units |-> Get(item, "original_price", 0),
                      hundredths |-> 0]]
Candidate(item) ==
  [app_id |-> StrOfId(item),
   name |-> NameOf(item),
   url |-> "https://store.steampowered.com/app/" \o StrOfId(item) \o "/",
   initial_price |-> Dollars(Get(item, "original_price", 0))]

\* One pass of the for loop of get_free_games over an item
FilterItem(item, ledger) ==
  IF /\ StrictPromotion(item)
     /\ StrOfId(item) # ""
     /\ ~is_game_already_sent(ledger, StrOfId(item))
     /\ verify_real_promotion(StrOfId(item))
  THEN <<Candidate(item)>>
  ELSE <<>>

RECURSIVE FilterItems_newest_first(_, _)
FilterItems_newest_first(items, ledger) ==
  IF items = <<>> THEN <<>>
  ELSE FilterItems_newest_first(Tail(items), ledger)
         \o FilterItem(Head(items), ledger)

RECURSIVE FilterItems(_, _)
FilterItems(items, ledger) ==
  IF items = <<>> THEN <<>>
  ELSE FilterItem(Head(items), ledger) \o FilterItems(Tail(items), ledger)

\* A fetch: the request fails (network, timeout, status, body), or gives a
\* document that may lack 'specials' or its 'items'.
FetchFailed == [ok |-> FALSE]
FetchOk(data) == [ok |-> TRUE, data |-> data]

\* How get_free_games ends: by its except clause (the request, the status
\* or the body raised) or by its return after the walk of the items. The
\* membership tests of line 1246 raise nothing on a document that lacks
\* 'specials' or 'items'.
get_free_games_path_unguarded(fetch) ==
  IF ~fetch.ok THEN "except"
  ELSE IF "specials" \in DOMAIN fetch.data
          /\ "items" \in DOMAIN fetch.data["specials"]
       THEN "return" ELSE "except"
get_free_games_path(fetch) == IF ~fetch.ok THEN "except" ELSE "return"

\* get_free_games: [] on any exception, else the filtered items
get_free_games(fetch, ledger) ==
  IF ~fetch.ok THEN <<>>
  ELSE IF "specials" \in DOMAIN fetch.data
          /\ "items" \in DOMAIN fetch.data["specials"]
       THEN FilterItems(fetch.data["specials"]["items"], ledger)
       ELSE <<>>

\* ------------------------------------------------------ input domains
\* The strict rule's numbers at and around its boundaries.
Numbers ==
  [discount_percent : {99, FullDiscount},
   final_price : {0, 1},
   original_price : {MinOriginalPrice, MinOriginalPrice + 1}]

\* A full-price discount of a 5.00 game, and an ordinary deep discount.
Promo == [discount_percent |-> FullDiscount, final_price |-> 0,
          original_price |-> 500]
Deep == [discount_percent |-> 50, final_price |-> 250, original_price |-> 500]

\* Catalog items: a paid game (100) with every combination of the numbers,
\* a known free-to-play id (730), the paid game without a name, another
\* paid game (200), an item without id, an item without discount_percent.
Entries ==
  {n @@ [id |-> 100, name |-> "A"] : n \in Numbers}
    \cup {Promo @@ [id |-> 730, name |-> "C"],
          Promo @@ [id |-> 100],
          Promo @@ [id |-> 200, name |-> "B"],
          Deep @@ [id |-> 200, name |-> "B"],
          Promo @@ [name |-> "D"],
          [id |-> 200, name |-> "B", final_price |-> 0, original_price |-> 500]}

\* Items a check run of the process is given: the full-price discounts.
RunEntries ==
  {Promo @@ [id |-> 100, name |-> "A"],
   Promo @@ [id |-> 200, name |-> "B"],
   Promo @@ [id |-> 730, name |-> "C"]}

SeqsUpTo(S, n) == UNION {[1..k -> S] : k \in 0..n}

\* The body of a successful response.
Responses(E) ==
  {[specials |-> [items |-> items]] : items \in SeqsUpTo(E, MaxItems)}
    \cup {[featured |-> <<>>], [specials |-> [id |-> 1]]}

Fetches(E) == {FetchFailed} \cup {FetchOk(d) : d \in Responses(E)}

\* Recipients (Telegram chat ids).
Chats == {1, 2}

\* Identifiers the items can carry.
AllIds == {StrOfId(e) : e \in Entries} \ {""}

\* ------------------------------------------------------------- store
\* SENT_GAMES_FILE: absent, a JSON document, or a truncated write.
NoFile == [kind |-> "absent"]
Corrupt == [kind |-> "corrupt"]

RECURSIVE SetToList(_)
\* list(self.chat_ids)
SetToList(S) ==
  IF S = {} THEN <<>>
  ELSE LET m == CHOOSE x \in S : \A y \in S : x <= y
       IN <<m>> \o SetToList(S \ {m})

ListToSet(l) == {l[k] : k \in 1..Len(l)}

\* The document save_sent_games dumps
Document_drop_ledger(ledger, chats) ==
  [kind |-> "doc", sent_games |-> <<>>, chat_ids |-> SetToList(chats)]
Document_drop_chats(ledger, chats) ==
  [kind |-> "doc", sent_games |-> ledger, chat_ids |-> <<>>]
Document(ledger, chats) ==
  [kind |-> "doc", sent_games |-> ledger, chat_ids |-> SetToList(chats)]

\* A save: the write succeeds, open() fails and leaves the file as it
\* was, or the dump fails after open() has truncated the file.
SaveOutcomes == {"ok", "open_failed", "write_failed"}

\* save_sent_games: any exception is logged and swallowed
save_sent_games_unsaved(old, outcome, ledger, chats) == old
save_sent_games(old, outcome, ledger, chats) ==
  CASE outcome = "ok" -> Document(ledger, chats)
    [] outcome = "open_failed" -> old
    [] outcome = "write_failed" -> Corrupt

\* Files the program does not write itself: one that cannot be opened, and
\* valid JSON whose top level is a list.
Unreadable == [kind |-> "unreadable"]
JsonList == [kind |-> "list"]

\* load_sent_games: whatever json.load gives, and the default document
\* when the file is absent or reading or parsing it raises
EmptyDocument == [kind |-> "doc", sent_games |-> <<>>, chat_ids |-> <<>>]
load_sent_games(f) == IF f.kind \in {"doc", "list"} THEN f ELSE EmptyDocument

\* __init__ after the load: self.sent_games.get('chat_ids', []) needs a
\* dict and raises AttributeError on a list
init_raises(loaded) == loaded.kind # "doc"
\* self.sent_games.get("sent_games", {}) and set(self.sent_games.get('chat_ids', []))
LedgerOf(loaded) == Get(loaded, "sent_games", <<>>)
ChatsOf(loaded) == ListToSet(Get(loaded, "chat_ids", <<>>))

\* mark_game_as_sent: the entry written for app_id at time t
mark_entry_skipped(ledger, app_id, game_name, t) == ledger
mark_entry(ledger, app_id, game_name, t) ==
  (app_id :> [name |-> game_name, sent_at |-> t]) @@ ledger

\* ------------------------------------------------------------- state
\* The threads of the process: main (the construction of steam_bot, then
\* the initial check), the scheduler's worker (the cron jobs), the HTTP
\* server, the bot's event loop.
Threads == {"main", "sched", "http", "bot"}

VARIABLES
  sent_games,     \* steam_bot.sent_games["sent_games"]: id -> {name, sent_at}
  chat_ids,       \* steam_bot.chat_ids
  file,           \* the content of SENT_GAMES_FILE
  now,            \* the clock read by datetime.now(TIMEZONE)
  welcome_tasks,  \* chats whose welcome task is pending on the event loop
  run,            \* per thread: the position and the locals of its handler
  marked,         \* ids mark_game_as_sent was called for in this process
  saved,          \* the memory the file's last complete write was given
  durable         \* ids whose mark had just returned, its write done, when
                  \* the process last died

vars == <<sent_games, chat_ids, file, now, welcome_tasks, run,
          marked, saved, durable>>

\* A thread between two handlers. The locals of a handler stay readable
\* at its return (pc = "done") and are dropped when the thread goes on.
Idle ==
  [pc |-> "idle", kind |-> "none", fetch_ok |-> FALSE, free_games |-> <<>>,
   new_games |-> <<>>, i |-> 1, msg |-> "none", todo |-> {}, attempted |-> {},
   delivered |-> {}, raised |-> FALSE, pre_marked |-> {},
   just_marked |-> "", just_saved |-> "none",
   wrote |-> "none", recovered |-> FALSE, data |-> <<>>,
   chat |-> 0, is_new_user |-> FALSE, was_size |-> 0, status |-> 0,
   fetch |-> FetchFailed]

\* steam_bot has been constructed; main() has not started the threads yet.
Booted == [Idle EXCEPT !.pc = "booted", !.kind = "boot"]

\* No handler is running, and the event loop has run the tasks it was given.
AllIdle ==
  /\ \A t \in Threads : run[t].pc \in {"idle", "exited"}
  /\ welcome_tasks = {}
Started == run["main"].pc \notin {"import", "aborted", "booted"}

\* mark_game_as_sent calls that running loops may still make
Remaining(t) ==
  IF run[t].pc \in {"loop", "mark"}
  THEN Len(run[t].free_games) - run[t].i + 1 ELSE 0
Budget ==
  MaxClock - now
    - (Remaining("main") + Remaining("sched") + Remaining("bot"))

NothingSaved == [valid |-> FALSE, ids |-> {}, chats |-> {}]

\* The first start: no file, and SteamSalesBot() gives the empty store.
Init ==
  /\ file = NoFile
  /\ now = 0
  /\ saved = NothingSaved
  /\ sent_games = load_sent_games(NoFile).sent_games
  /\ chat_ids = ListToSet(load_sent_games(NoFile).chat_ids)
  /\ welcome_tasks = {}
  /\ run = [t \in Threads |-> IF t = "main" THEN Booted ELSE Idle]
  /\ marked = {}
  /\ durable = {}

\* What the file's last complete write was given, after one more save
Saved(outcome, ledger, chats) ==
  CASE outcome = "ok" -> [valid |-> TRUE, ids |-> DOMAIN ledger, chats |-> chats]
    [] outcome = "open_failed" -> saved
    [] outcome = "write_failed" -> NothingSaved

\* ------------------------------------------------------ registration
\* is_new_user = chat_id not in self.chat_ids, read before the add
is_new_user_always(chats, chat) == TRUE
is_new_user(chats, chat) == chat \notin chats

\* add_chat_id: the add and the save
add_chat_id_only(chat, outcome) ==
  /\ chat_ids' = {chat}
  /\ file' = save_sent_games(file, outcome, sent_games, {chat})
  /\ saved' = Saved(outcome, sent_games, {chat})
add_chat_id(chat, outcome) ==
  /\ chat_ids' = chat_ids \cup {chat}
  /\ file' = save_sent_games(file, outcome, sent_games, chat_ids \cup {chat})
  /\ saved' = Saved(outcome, sent_games, chat_ids \cup {chat})

\* add_chat_id: the welcome task of a new user. asyncio.create_task needs
\* a running event loop: the bot's handlers have one.
WelcomeCreated(chat) ==
  IF is_new_user(chat_ids, chat) THEN welcome_tasks \cup {chat}
  ELSE welcome_tasks

\* Memory holds a game or a chat that the file does not: the write of
\* its mutation failed, and no write has succeeded since.
Unsaved ==
  \/ DOMAIN sent_games \ DOMAIN LedgerOf(load_sent_games(file)) # {}
  \/ chat_ids \ ChatsOf(load_sent_games(file)) # {}

\* The locals of a handler after a save_sent_games: how the write ended,
\* and whether it brought to the file what earlier failed writes had not
Wrote(r, outcome) ==
  [r EXCEPT !.wrote = outcome, !.recovered = (outcome = "ok" /\ Unsaved)]

\* The locals of a handler that has called add_chat_id(chat)
Registered(r, chat) ==
  [r EXCEPT !.chat = chat, !.is_new_user = is_new_user(chat_ids, chat),
            !.was_size = Cardinality(chat_ids)]

\* HealthCheckHandler.do_GET for /subscribe/<chat>: add_chat_id, then the
\* 200 page. The HTTP server's thread has no running event loop: for a new
\* user create_task raises RuntimeError after the add and the save, and
\* do_GET, which catches only ValueError and IndexError, sends no response.
Subscribe(chat, outcome, serial) ==
  /\ Started
  /\ serial => AllIdle
  /\ run["http"].pc = "idle"
  /\ add_chat_id(chat, outcome)
  /\ run' = [run EXCEPT !["http"] =
               [Wrote(Registered(Idle, chat), outcome) EXCEPT
                  !.pc = "done", !.kind = "subscribe",
                  !.raised = is_new_user(chat_ids, chat),
                  !.status = IF is_new_user(chat_ids, chat) THEN 0 ELSE 200]]
  /\ UNCHANGED <<sent_games, now, welcome_tasks, marked, durable>>

\* GET /subscribe/<x>: the last segment of the path, as its characters
Digits == {"0", "1", "2", "3", "4", "5", "6", "7", "8", "9"}
Segments ==
  {<<>>, <<"a", "b", "c">>, <<"1", ".", "5">>, <<"2", "x">>, <<"-">>,
   <<"1">>, <<"-", "2">>}

\* int(s) gives a value: an optional sign, then digits and nothing else
\* (the blanks and underscores int() also takes are not in Segments)
int_parses(seg) ==
  LET body == IF seg # <<>> /\ seg[1] \in {"+", "-"} THEN Tail(seg) ELSE seg
  IN body # <<>> /\ \A i \in 1..Len(body) : body[i] \in Digits

BadRequest == 400

SubscribeInvalid_adds(seg, serial) ==
  /\ Started
  /\ serial => AllIdle
  /\ run["http"].pc = "idle"
  /\ ~int_parses(seg)
  /\ add_chat_id(Len(seg), "ok")
  /\ run' = [run EXCEPT !["http"] =
               [Idle EXCEPT !.pc = "done", !.kind = "subscribe_invalid",
                            !.status = BadRequest]]
  /\ UNCHANGED <<sent_games, now, welcome_tasks, marked, durable>>

\* do_GET on /subscribe/<x> when int() raises ValueError: the except
\* branch answers 400; add_chat_id is not reached
SubscribeInvalid(seg, serial) ==
  /\ Started
  /\ serial => AllIdle
  /\ run["http"].pc = "idle"
  /\ ~int_parses(seg)
  /\ run' = [run EXCEPT !["http"] =
               [Idle EXCEPT !.pc = "done", !.kind = "subscribe_invalid",
                            !.status = BadRequest]]
  /\ UNCHANGED <<sent_games, chat_ids, file, now, welcome_tasks, marked,
                 saved, durable>>

\* start_command: add_chat_id, then the reply
StartCommand(chat, outcome, serial) ==
  /\ Started
  /\ serial => AllIdle
  /\ run["bot"].pc = "idle"
  /\ add_chat_id(chat, outcome)
  /\ welcome_tasks' = WelcomeCreated(chat)
  /\ run' = [run EXCEPT !["bot"] =
               [Wrote(Registered(Idle, chat), outcome) EXCEPT
                  !.pc = "done", !.kind = "start"]]
  /\ UNCHANGED <<sent_games, now, marked, durable>>

\* send_welcome_notification, run by the event loop between two handlers:
\* when os.environ.get('TELEGRAM_BOT_TOKEN') gives nothing it returns
\* before any send (the process is started with TELEGRAM_TOKEN; whether
\* the other name is set too is up to the environment); a failed send is
\* caught.
WelcomeTask(chat, env_bot_token) ==
  /\ chat \in welcome_tasks
  /\ run["bot"].pc = "idle"
  /\ welcome_tasks' = welcome_tasks \ {chat}
  /\ run' = [run EXCEPT !["bot"] =
               [Idle EXCEPT !.pc = "done", !.kind = "welcome", !.chat = chat,
                            !.attempted = IF env_bot_token THEN {chat} ELSE {}]]
  /\ UNCHANGED <<sent_games, chat_ids, file, now, marked, saved, durable>>

\* ---------------------------------------------------------- check runs
\* The start of a run: free_games = get_free_games(), and the return on an
\* empty list. A manual check (send_free_games with manual_check) then
\* sends the 'no promotion' text to every chat, a scheduled one nothing.
AfterFetch(r, kind, fetch, chats) ==
  LET free == get_free_games(fetch, sent_games)
      base == [r EXCEPT !.kind = kind, !.fetch_ok = fetch.ok,
                        !.free_games = free, !.pre_marked = marked]
  IN IF free # <<>> THEN [base EXCEPT !.pc = "loop"]
     ELSE IF kind = "manual" /\ chats # {}
          THEN [base EXCEPT !.pc = "send", !.msg = "none", !.todo = chats]
          ELSE [base EXCEPT !.pc = "done"]

\* scheduled_check_sync, up to the loop: on the main thread once after the
\* start (the initial check), on the scheduler's thread at each cron time
BeginScheduledCheck(t, fetch, serial) ==
  /\ t \in {"main", "sched"}
  /\ Started
  /\ serial => AllIdle
  /\ run[t].pc = "idle"
  /\ Len(get_free_games(fetch, sent_games)) <= Budget
  /\ run' = [run EXCEPT ![t] = AfterFetch(Idle, "scheduled", fetch, chat_ids)]
  /\ UNCHANGED <<sent_games, chat_ids, file, now, welcome_tasks, marked, saved, durable>>

\* check_command (and the button): add_chat_id, the reply, then
\* send_free_games(context, manual_check=True) up to its loop
CheckCommand(chat, outcome, fetch, serial) ==
  /\ Started
  /\ serial => AllIdle
  /\ run["bot"].pc = "idle"
  /\ Len(get_free_games(fetch, sent_games)) <= Budget
  /\ add_chat_id(chat, outcome)
  /\ welcome_tasks' = WelcomeCreated(chat)
  /\ run' = [run EXCEPT !["bot"] =
               AfterFetch(Wrote(Registered(Idle, chat), outcome), "manual", fetch,
                          chat_ids \cup {chat})]
  /\ UNCHANGED <<sent_games, now, marked, durable>>

\* The test that guards the mark in the loop of a run
LoopSkips_never(ledger, app_id) == FALSE
LoopSkips(ledger, app_id) == is_game_already_sent(ledger, app_id)

\* 'for game in free_games', the test of a pass: a game already sent is
\* passed over. Another thread may run between the test and the mark.
LoopTest(t) ==
  /\ run[t].pc = "loop"
  /\ LET game == run[t].free_games[run[t].i]
         last == run[t].i = Len(run[t].free_games)
         r == [run[t] EXCEPT !.just_marked = "", !.just_saved = "none",
                             !.wrote = "none", !.recovered = FALSE]
     IN run' = [run EXCEPT ![t] =
                  IF LoopSkips(sent_games, game.app_id)
                  THEN [r EXCEPT !.i = @ + 1,
                                 !.pc = IF last THEN "after_loop" ELSE "loop"]
                  ELSE [r EXCEPT !.pc = "mark"]]
  /\ UNCHANGED <<sent_games, chat_ids, file, now, welcome_tasks, marked,
                 saved, durable>>

\* The rest of the pass: new_games.append(game), then mark_game_as_sent
\* writes the entry, stamped with the time, and saves the store
LoopMark(t, outcome) ==
  /\ run[t].pc = "mark"
  /\ LET game == run[t].free_games[run[t].i]
         last == run[t].i = Len(run[t].free_games)
     IN /\ sent_games' = mark_entry(sent_games, game.app_id, game.name, now)
        /\ now' = now + 1
        /\ file' = save_sent_games(file, outcome, sent_games', chat_ids)
        /\ saved' = Saved(outcome, sent_games', chat_ids)
        /\ marked' = marked \cup {game.app_id}
        /\ run' = [run EXCEPT ![t].i = @ + 1,
                              ![t].pc = IF last THEN "after_loop" ELSE "loop",
                              ![t].new_games = Append(@, game),
                              ![t].just_marked = game.app_id,
                              ![t].just_saved = outcome,
                              ![t].wrote = outcome,
                              ![t].recovered = (outcome = "ok" /\ Unsaved)]
  /\ UNCHANGED <<chat_ids, welcome_tasks, durable>>

\* After the loop: nothing new ends the run (a manual check first sends
\* its 'nothing new' text); a scheduled run with no registered chat
\* returns; otherwise the new games go to every chat of chat_ids.
AfterLoop_again(t) ==
  /\ run[t].pc = "after_loop"
  /\ run' = [run EXCEPT ![t].pc = "loop", ![t].i = 1]
  /\ UNCHANGED <<sent_games, chat_ids, file, now, welcome_tasks, marked, saved, durable>>

AfterLoop(t) ==
  /\ run[t].pc = "after_loop"
  /\ LET r == [run[t] EXCEPT !.just_marked = "", !.just_saved = "none",
                             !.wrote = "none", !.recovered = FALSE]
         to == IF r.new_games = <<>>
               THEN IF r.kind = "manual" /\ chat_ids # {}
                    THEN [r EXCEPT !.pc = "send", !.msg = "none",
                                   !.todo = chat_ids]
                    ELSE [r EXCEPT !.pc = "done"]
               ELSE IF chat_ids = {}
                    THEN [r EXCEPT !.pc = "done"]
                    ELSE [r EXCEPT !.pc = "send", !.msg = "promo",
                                   !.todo = chat_ids]
     IN run' = [run EXCEPT ![t] = to]
  /\ UNCHANGED <<sent_games, chat_ids, file, now, welcome_tasks, marked, saved, durable>>

GameIds(games) == {games[k].app_id : k \in 1..Len(games)}

\* One pass of 'for chat_id in chat_ids' around send_message. A failed
\* send of the new games is caught and logged; the 'no promotion' sends
\* of a manual check have no try around them. The loop runs over the live
\* set: when a chat was added since the loop began, the next pass raises
\* RuntimeError (set changed size during iteration) outside the try; it
\* leaves send_free_games, and is caught around asyncio.run in
\* send_automatic_notifications.
SendStep_abort(t, chat, ok) ==
  /\ run[t].pc = "send"
  /\ chat \in run[t].todo
  /\ LET r == [run[t] EXCEPT
                 !.todo = @ \ {chat},
                 !.attempted = @ \cup {chat},
                 !.delivered = IF ok /\ run[t].msg = "promo"
                               THEN @ \cup {chat} ELSE @]
     IN run' = [run EXCEPT ![t] =
                  IF ~ok THEN [r EXCEPT !.pc = "done", !.raised = TRUE]
                  ELSE IF r.todo = {} THEN [r EXCEPT !.pc = "done"] ELSE r]
  /\ UNCHANGED <<sent_games, chat_ids, file, now, welcome_tasks, marked, saved, durable>>

SendStep(t, chat, ok) ==
  /\ run[t].pc = "send"
  /\ chat \in run[t].todo
  /\ LET r == [run[t] EXCEPT
                 !.todo = @ \ {chat},
                 !.attempted = @ \cup {chat},
                 !.delivered = IF ok /\ run[t].msg = "promo"
                               THEN @ \cup {chat} ELSE @]
         resized == chat_ids # run[t].todo \cup run[t].attempted
     IN run' = [run EXCEPT ![t] =
                  IF resized
                  THEN [run[t] EXCEPT !.pc = "done",
                                      !.raised = (run[t].kind = "manual")]
                  ELSE IF ~ok /\ r.msg = "none"
                  THEN [r EXCEPT !.pc = "done", !.raised = TRUE]
                  ELSE IF r.todo = {} THEN [r EXCEPT !.pc = "done"] ELSE r]
  /\ UNCHANGED <<sent_games, chat_ids, file, now, welcome_tasks, marked, saved, durable>>

\* The handler returns. main() goes from the construction to its initial
\* check, and after that check sleeps in its loop for good.
Return(t) ==
  /\ run[t].pc \in {"done", "booted"}
  /\ run' = [run EXCEPT ![t] =
               IF t = "main" /\ run[t].pc = "done"
               THEN [Idle EXCEPT !.pc = "exited"] ELSE Idle]
  /\ UNCHANGED <<sent_games, chat_ids, file, now, welcome_tasks, marked, saved, durable>>

\* Ids whose mark_game_as_sent has just returned with its write done
JustDurable ==
  {run[t].just_marked : t \in {u \in Threads : run[u].just_saved = "ok"}}

\* The process dies and is started again: the module-level
\* steam_bot = SteamSalesBot() loads the file.
Restart ==
  /\ sent_games' = load_sent_games(file).sent_games
  /\ chat_ids' = ListToSet(load_sent_games(file).chat_ids)
  /\ welcome_tasks' = {}
  /\ run' = [t \in Threads |-> IF t = "main" THEN Booted ELSE Idle]
  /\ marked' = {}
  /\ durable' = JustDurable
  /\ UNCHANGED <<file, now, saved>>

\* ------------------------------------------------------ specifications
\* Serial execution: one handler at a time, with fetch, save and send
\* failures, and restarts of the process.
Next ==
  \/ \E c \in Chats, o \in SaveOutcomes : Subscribe(c, o, TRUE)
  \/ \E seg \in Segments : SubscribeInvalid(seg, TRUE)
  \/ \E c \in Chats, o \in SaveOutcomes : StartCommand(c, o, TRUE)
  \/ \E c \in Chats, o \in SaveOutcomes, f \in Fetches(RunEntries) :
       CheckCommand(c, o, f, TRUE)
  \/ \E t \in {"main", "sched"}, f \in Fetches(RunEntries) :
       BeginScheduledCheck(t, f, TRUE)
  \/ \E t \in Threads : LoopTest(t)
  \/ \E t \in Threads, o \in SaveOutcomes : LoopMark(t, o)
  \/ \E t \in Threads : AfterLoop(t)
  \/ \E t \in Threads, c \in Chats, ok \in BOOLEAN : SendStep(t, c, ok)
  \/ \E t \in Threads : Return(t)
  \/ \E c \in Chats, e \in BOOLEAN : WelcomeTask(c, e)
  \/ Restart

Spec == Init /\ [][Next]_vars

\* The filter alone: a process whose store already holds some games calls
\* get_free_games on every response the catalog can give.
StoredLedgers ==
  {<<>>,
   ("100" :> [name |-> "A", sent_at |-> 0]),
   ("200" :> [name |-> "B", sent_at |-> 0]),
   ("100" :> [name |-> "A", sent_at |-> 0]) @@
     ("200" :> [name |-> "B", sent_at |-> 1])}

InitFilter ==
  /\ \E l \in StoredLedgers :
       /\ file = Document(l, {})
       /\ saved = [valid |-> TRUE, ids |-> DOMAIN l, chats |-> {}]
  /\ now = MaxClock
  /\ sent_games = load_sent_games(file).sent_games
  /\ chat_ids = ListToSet(load_sent_games(file).chat_ids)
  /\ welcome_tasks = {}
  /\ run = [t \in Threads |-> Idle]
  /\ marked = {}
  /\ durable = {}

\* A call of steam_bot.get_free_games(), its response and result kept
GetFreeGamesCall_marking(fetch) ==
  /\ run["sched"].pc = "idle"
  /\ run' = [run EXCEPT !["sched"] =
               [Idle EXCEPT !.pc = "done", !.kind = "filter",
                            !.fetch_ok = fetch.ok, !.fetch = fetch,
                            !.free_games = get_free_games(fetch, sent_games)]]
  /\ sent_games' =
       [id \in GameIds(get_free_games(fetch, sent_games)) |->
          [name |-> "seen", sent_at |-> now]] @@ sent_games
  /\ UNCHANGED <<chat_ids, file, now, welcome_tasks, marked, saved, durable>>

GetFreeGamesCall(fetch) ==
  /\ run["sched"].pc = "idle"
  /\ run' = [run EXCEPT !["sched"] =
               [Idle EXCEPT !.pc = "done", !.kind = "filter",
                            !.fetch_ok = fetch.ok, !.fetch = fetch,
                            !.free_games = get_free_games(fetch, sent_games)]]
  /\ UNCHANGED <<sent_games, chat_ids, file, now, welcome_tasks, marked,
                 saved, durable>>

NextFilter ==
  \/ \E f \in Fetches(Entries) : GetFreeGamesCall(f)
  \/ \E t \in Threads : Return(t)

SpecFilter == InitFilter /\ [][NextFilter]_vars

\* Items given to overlapping runs: the two paid games.
ConcEntries ==
  {Promo @@ [id |-> 100, name |-> "A"], Promo @@ [id |-> 200, name |-> "B"]}

\* Overlapping handlers: the initial check of the main thread, the cron
\* job on the scheduler's thread and the HTTP server's thread interleave
\* at every step, within one process.
NextConc ==
  \/ \E c \in Chats, o \in SaveOutcomes : Subscribe(c, o, FALSE)
  \/ \E t \in {"main", "sched"}, f \in Fetches(ConcEntries) :
       BeginScheduledCheck(t, f, FALSE)
  \/ \E t \in Threads : LoopTest(t)
  \/ \E t \in Threads, o \in SaveOutcomes : LoopMark(t, o)
  \/ \E t \in Threads : AfterLoop(t)
  \/ \E t \in Threads, c \in Chats, ok \in BOOLEAN : SendStep(t, c, ok)
  \/ \E t \in Threads : Return(t)

SpecConc == Init /\ [][NextConc]_vars

\* ------------------------------------------------------------- claims
CheckRun(t) == run[t].kind \in {"scheduled", "manual"}
CandidateIds(t) == GameIds(run[t].free_games)

\* C1: in serial execution, a run never gets from get_free_games a
\* candidate whose id mark_game_as_sent had been called for, earlier in
\* the process, when the run started.
C1_NoCandidateOnceMarked ==
  \A t \in Threads : CandidateIds(t) \cap run[t].pre_marked = {}

\* A later run whose fetch succeeded, after a game was marked
C1_Witness ==
  \E t \in Threads :
    /\ CheckRun(t) /\ run[t].pc = "done" /\ run[t].fetch_ok
    /\ run[t].pre_marked # {}
    /\ run[t].pre_marked \subseteq DOMAIN sent_games

\* C2: whatever the interleaving of the runs of one process, no chat is
\* delivered the promotion of the same game by two runs.
C2_NotifiedOnce ==
  \A t \in Threads, u \in Threads :
    t # u =>
      \/ run[t].delivered \cap run[u].delivered = {}
      \/ GameIds(run[t].new_games) \cap GameIds(run[u].new_games) = {}

\* The rule of claim C3, read off the item's own fields
C3_Rule(item) ==
  /\ "discount_percent" \in DOMAIN item /\ item["discount_percent"] = 100
  /\ "final_price" \in DOMAIN item /\ item["final_price"] = 0
  /\ "original_price" \in DOMAIN item /\ item["original_price"] > 100

Items(t) ==
  IF /\ run[t].fetch.ok
     /\ "specials" \in DOMAIN run[t].fetch.data
     /\ "items" \in DOMAIN run[t].fetch.data["specials"]
  THEN run[t].fetch.data["specials"]["items"]
  ELSE <<>>

Count(q, P(_)) == Cardinality({k \in 1..Len(q) : P(q[k])})

\* C3: for every id that is non-empty, not in the ledger and not in the
\* denylist, get_free_games returns one candidate per item of the
\* snapshot that carries this id and has discount 100, final price 0 and
\* original price above 100, and none for the other items.
C3_ExactRule ==
  \A t \in Threads :
    run[t].kind = "filter" =>
      \A id \in AllIds \ (DOMAIN sent_games \cup known_f2p_games) :
        LET IsCand(c) == c.app_id = id
            Passes(item) == StrOfId(item) = id /\ C3_Rule(item)
        IN Count(run[t].free_games, IsCand) = Count(Items(t), Passes)

\* Original price 101 gives a candidate, beside an item at discount 99
C3_Witness ==
  \E t \in Threads :
    /\ run[t].kind = "filter"
    /\ Len(Items(t)) = 2
    /\ Items(t)[1] = [id |-> 100, name |-> "A", discount_percent |-> 100,
                      final_price |-> 0, original_price |-> 101]
    /\ Items(t)[2] = [id |-> 100, name |-> "A", discount_percent |-> 99,
                      final_price |-> 0, original_price |-> 101]
    /\ Len(run[t].free_games) = 1

\* C4: no candidate of get_free_games carries an id of the denylist.
C4_DenylistExcluded ==
  \A t \in Threads : CandidateIds(t) \cap known_f2p_games = {}

\* The snapshot offers a denylisted id at discount 100, price 0, 5.00
C4_Witness ==
  \E t \in Threads :
    /\ run[t].kind = "filter"
    /\ \E k \in 1..Len(Items(t)) :
         StrOfId(Items(t)[k]) \in known_f2p_games /\ C3_Rule(Items(t)[k])
    /\ run[t].free_games # <<>>

StoredIds == DOMAIN load_sent_games(file).sent_games

\* C5 as stated: when mark_game_as_sent has returned, the record is in
\* the store, so that a restart finds it.
C5_DurableOnReturn ==
  \A t \in Threads : run[t].just_marked # "" => run[t].just_marked \in StoredIds

\* C5 amended: when mark_game_as_sent has returned and its write did not
\* fail, the record is in the store; after a crash at that point and the
\* restart, is_game_already_sent is true for it and no run of the
\* restarted process gets it as a candidate.
C5_DurableWhenWritten ==
  /\ \A t \in Threads :
       run[t].just_saved = "ok" => run[t].just_marked \in StoredIds
  /\ \A id \in durable : is_game_already_sent(sent_games, id)
  /\ \A t \in Threads : CandidateIds(t) \cap durable = {}

\* A run of the restarted process, after a crash right behind a mark
C5_Witness ==
  /\ durable # {}
  /\ \E t \in Threads : CheckRun(t) /\ run[t].pc = "done" /\ run[t].fetch_ok

\* C6: at the end of a run whose fetch succeeded, every new game is in
\* the ledger and was handed to the transport for at least one chat.
C6_RecordedAndNotified ==
  \A t \in Threads :
    (CheckRun(t) /\ run[t].pc = "done" /\ run[t].fetch_ok
       /\ run[t].new_games # <<>>) =>
      /\ GameIds(run[t].new_games) \subseteq DOMAIN sent_games
      /\ run[t].attempted # {}

\* C7: but for a restart of the process, no step removes or changes an
\* entry of the ledger.
C7_AppendOnly ==
  [][Restart \/ \A id \in DOMAIN sent_games :
                  id \in DOMAIN sent_games' /\ sent_games'[id] = sent_games[id]]_vars

\* A run that met an id twice: the second pass found it in the ledger
C7_Witness ==
  \E t \in Threads :
    /\ CheckRun(t) /\ run[t].pc = "after_loop"
    /\ Len(run[t].free_games) = 2 /\ Len(run[t].new_games) = 1

\* C8: a process constructed from the file of a completed write holds
\* the notified ids and the recipients that write was given.
C8_RoundTrip ==
  (run["main"].pc = "booted" /\ saved.valid) =>
    /\ DOMAIN sent_games = saved.ids
    /\ chat_ids = saved.chats

C8_Witness ==
  /\ run["main"].pc = "booted" /\ saved.valid
  /\ saved.ids # {} /\ Cardinality(saved.chats) = 2
  /\ marked = {}

Registering(t) == run[t].kind \in {"subscribe", "start", "manual"}

\* C9: after add_chat_id(chat) the chat is in the set, and the call found
\* a new user exactly when the set has grown by one: a second call with
\* the same chat leaves the set as it was and finds no new user.
C9_AddTwice ==
  \A t \in Threads :
    Registering(t) =>
      /\ run[t].chat \in chat_ids
      /\ Cardinality(chat_ids) =
           run[t].was_size + (IF run[t].is_new_user THEN 1 ELSE 0)

\* A second call for a chat: no file was ever written, so the chat was
\* added by an earlier call of this process
C9_Witness ==
  /\ file = NoFile
  /\ \E t \in Threads :
       Registering(t) /\ ~run[t].is_new_user /\ run[t].was_size = 1

\* C10: a handler that found a new user has completed and has its welcome
\* task on the event loop, and a welcome task that ran has attempted the
\* send to its chat.
C10_WelcomeAttempted ==
  /\ \A t \in Threads :
       (Registering(t) /\ run[t].is_new_user) =>
         ~run[t].raised /\ run[t].chat \in welcome_tasks
  /\ \A t \in Threads :
       run[t].kind = "welcome" => run[t].attempted = {run[t].chat}

\* C11: a run whose fetch failed ends as a run with no candidate:
\* get_free_games gave the empty list, nothing was marked, no promotion
\* was sent, and no exception left the run.
C11_FetchFailureIsQuiet ==
  \A t \in Threads :
    (CheckRun(t) /\ run[t].pc = "done" /\ ~run[t].fetch_ok) =>
      /\ run[t].free_games = <<>>
      /\ run[t].new_games = <<>>
      /\ run[t].delivered = {}
      /\ marked = run[t].pre_marked
      /\ ~run[t].raised

\* ------------------------------------------------- the construction
\* The start of the process on whatever SENT_GAMES_FILE holds: the files
\* the program writes, and files left there by something else.
StoredFiles ==
  {NoFile, Corrupt, Unreadable, JsonList, [kind |-> "doc"]}
    \cup {[kind |-> "doc", sent_games |-> l] : l \in StoredLedgers}
    \cup {Document(l, c) : l \in StoredLedgers, c \in SUBSET Chats}

InitBoot ==
  /\ file \in StoredFiles
  /\ now = MaxClock
  /\ saved = NothingSaved
  /\ sent_games = <<>>
  /\ chat_ids = {}
  /\ welcome_tasks = {}
  /\ run = [t \in Threads |->
              IF t = "main" THEN [Idle EXCEPT !.pc = "import", !.kind = "boot"]
              ELSE Idle]
  /\ marked = {}
  /\ durable = {}

\* steam_bot = SteamSalesBot() at the import of the module: an exception
\* of __init__ is caught by nothing and ends the process.
Construct ==
  /\ run["main"].pc = "import"
  /\ LET loaded == load_sent_games(file)
     IN IF init_raises(loaded)
        THEN /\ run' = [run EXCEPT !["main"].pc = "aborted",
                                   !["main"].raised = TRUE]
             /\ UNCHANGED <<sent_games, chat_ids>>
        ELSE /\ sent_games' = LedgerOf(loaded)
             /\ chat_ids' = ChatsOf(loaded)
             /\ run' = [run EXCEPT !["main"] = Booted]
  /\ UNCHANGED <<file, now, welcome_tasks, marked, saved, durable>>

\* The construction, then the registrations of the started process.
NextBoot ==
  \/ Construct
  \/ \E t \in Threads : Return(t)
  \/ \E c \in Chats, o \in SaveOutcomes : Subscribe(c, o, TRUE)
  \/ \E c \in Chats, o \in SaveOutcomes : StartCommand(c, o, TRUE)
  \/ \E c \in Chats, e \in BOOLEAN : WelcomeTask(c, e)

SpecBoot == InitBoot /\ [][NextBoot]_vars

\* C12: SteamSalesBot() completes on every content of the store file, and
\* on a file that is not the expected document it gives the empty ledger
\* and the empty recipient set.
C12_ConstructionCompletes ==
  /\ run["main"].pc # "aborted"
  /\ (run["main"].pc = "booted" /\ file \in {NoFile, Corrupt, Unreadable, JsonList}) =>
       (sent_games = <<>> /\ chat_ids = {})

C14_BatchNotAborted ==
  \A t \in Threads :
    (CheckRun(t) /\ run[t].msg = "promo") =>
      /\ ~run[t].raised
      /\ run[t].pc = "send" => run[t].todo # {}
      /\ run[t].pc = "done" =>
           (run[t].todo = {} /\ run[t].attempted = chat_ids)

\* The send to one chat has failed and the batch goes on to the next
C14_Witness ==
  \E t \in Threads :
    /\ CheckRun(t) /\ run[t].msg = "promo" /\ run[t].pc = "send"
    /\ run[t].attempted # {} /\ run[t].delivered = {}
    /\ run[t].todo # {}

\* C15: in serial execution, an id that a snapshot offers twice is put
\* once in the run's batch of new games and has one ledger entry; marking
\* an id the ledger holds adds no record.
C15_OnceInBatch ==
  /\ \A t \in Threads :
       CheckRun(t) =>
         /\ \A j \in 1..Len(run[t].new_games), k \in 1..Len(run[t].new_games) :
              j # k => run[t].new_games[j].app_id # run[t].new_games[k].app_id
         /\ GameIds(run[t].new_games) \subseteq DOMAIN sent_games
  /\ \A id \in DOMAIN sent_games :
       DOMAIN mark_entry(sent_games, id, "again", now) = DOMAIN sent_games

\* Both candidates of the run carried the same id; the batch of one game
\* has been delivered
C15_Witness ==
  \E t \in Threads :
    /\ CheckRun(t) /\ run[t].pc = "done" /\ run[t].delivered # {}
    /\ Len(run[t].free_games) = 2
    /\ run[t].free_games[1].app_id = run[t].free_games[2].app_id
    /\ Len(run[t].new_games) = 1
    /\ Cardinality(DOMAIN sent_games) = 1

\* C16: within a process no step takes a chat out of steam_bot.chat_ids,
\* and a handler whose write has succeeded leaves every registered chat in
\* the file.
C16_RecipientsKept ==
  [][/\ Restart \/ chat_ids \subseteq chat_ids'
     /\ \A t \in Threads :
          (run'[t].wrote = "ok" /\ run'[t] # run[t]) =>
            chat_ids' \subseteq ChatsOf(load_sent_games(file'))]_vars

\* A registered chat after a failed send to it and a failed save
C16_Witness ==
  \E t \in Threads :
    /\ CheckRun(t) /\ run[t].pc = "done" /\ run[t].msg = "promo"
    /\ run[t].attempted # run[t].delivered
    /\ run[t].attempted \subseteq chat_ids
    /\ chat_ids \ ChatsOf(load_sent_games(file)) # {}

\* ------------------------------------------------ runs on a snapshot
\* Scheduled runs of a process whose store already holds some games, on
\* every response the catalog can give, the response kept beside the run.
InitOrder ==
  /\ \E l \in StoredLedgers :
       /\ file = Document(l, {})
       /\ saved = [valid |-> TRUE, ids |-> DOMAIN l, chats |-> {}]
  /\ now = 0
  /\ sent_games = load_sent_games(file).sent_games
  /\ chat_ids = ListToSet(load_sent_games(file).chat_ids)
  /\ welcome_tasks = {}
  /\ run = [t \in Threads |-> Idle]
  /\ marked = {}
  /\ durable = {}

\* scheduled_check_sync on the scheduler's thread, up to the loop
ScheduledCheckOn(fetch) ==
  /\ run["sched"].pc = "idle"
  /\ Len(get_free_games(fetch, sent_games)) <= Budget
  /\ run' = [run EXCEPT !["sched"] =
               AfterFetch([Idle EXCEPT !.fetch = fetch], "scheduled", fetch,
                          chat_ids)]
  /\ UNCHANGED <<sent_games, chat_ids, file, now, welcome_tasks, marked, saved, durable>>

NextOrder ==
  \/ \E f \in Fetches(Entries) : ScheduledCheckOn(f)
  \/ \E t \in Threads : LoopTest(t)
  \/ \E t \in Threads, o \in SaveOutcomes : LoopMark(t, o)
  \/ \E t \in Threads : AfterLoop(t)
  \/ \E t \in Threads : Return(t)

SpecOrder == InitOrder /\ [][NextOrder]_vars

RECURSIVE IsSubseq(_, _)
\* a is b with some of its elements left out
IsSubseq(a, b) ==
  IF a = <<>> THEN TRUE
  ELSE IF b = <<>> THEN FALSE
  ELSE IF Head(a) = Head(b) THEN IsSubseq(Tail(a), Tail(b))
  ELSE IsSubseq(a, Tail(b))

IdsOf(games) == [k \in 1..Len(games) |-> games[k].app_id]
ItemIds(t) == [k \in 1..Len(Items(t)) |-> StrOfId(Items(t)[k])]

\* C17: the candidates of a run come in the order of the snapshot's items,
\* the new games in the order of the candidates, and the ledger entries
\* of the run are stamped in the order of the new games.
C17_SnapshotOrder ==
  \A t \in Threads :
    run[t].kind = "scheduled" =>
      /\ IsSubseq(IdsOf(run[t].free_games), ItemIds(t))
      /\ IsSubseq(run[t].new_games, run[t].free_games)
      /\ \A j \in 1..Len(run[t].new_games), k \in 1..Len(run[t].new_games) :
           j < k =>
             sent_games[run[t].new_games[j].app_id].sent_at
               < sent_games[run[t].new_games[k].app_id].sent_at

\* The snapshot lists game 200 before game 100; both were marked
C17_Witness ==
  \E t \in Threads :
    /\ run[t].kind = "scheduled" /\ run[t].pc = "done"
    /\ ItemIds(t) = <<"200", "100">>
    /\ IdsOf(run[t].new_games) = <<"200", "100">>
    /\ sent_games["200"].sent_at < sent_games["100"].sent_at

NoItemList(fetch) ==
  /\ fetch.ok
  /\ \/ "specials" \notin DOMAIN fetch.data
     \/ "items" \notin DOMAIN fetch.data["specials"]

\* C18: on a snapshot without 'specials', or whose 'specials' has no
\* 'items', get_free_games ends by its return with no candidate, and the
\* run marks nothing.
C18_NoSpecialsNoCandidate ==
  \A t \in Threads :
    (run[t].kind = "scheduled" /\ NoItemList(run[t].fetch)) =>
      /\ get_free_games_path(run[t].fetch) = "return"
      /\ run[t].free_games = <<>>
      /\ run[t].new_games = <<>>
      /\ run[t].pc = "done"
      /\ marked = run[t].pre_marked
      /\ run[t].just_marked = ""

\* A run on a snapshot whose 'specials' has no 'items', the store holding
\* a game
C18_Witness ==
  \E t \in Threads :
    /\ run[t].kind = "scheduled" /\ run[t].pc = "done"
    /\ run[t].fetch = FetchOk([specials |-> [id |-> 1]])
    /\ sent_games # <<>>

\* The candidate the claim describes for an item that carries an id
Described(item, c) ==
  /\ c.app_id = ToString(item["id"])
  /\ c.name = IF "name" \in DOMAIN item THEN item["name"]
              ELSE "Jeu " \o ToString(item["id"])
  /\ c.initial_price.hundredths \in 0..99
  /\ c.initial_price.units * 100 + c.initial_price.hundredths
       = item["original_price"]
  /\ c.url = "https://store.steampowered.com/app/" \o ToString(item["id"]) \o "/"

\* C19: each candidate of get_free_games is built from an item that passes
\* the rule: its id as a string, its name or 'Jeu <id>', its original
\* price in dollars and hundredths, the store URL of the id. A snapshot of
\* game 100 at discount 100, price 0, original 500 and game 200 at
\* discount 50 gives the one candidate "100", 'Jeu 100', at 5.00.
C19_CandidateFields ==
  \A t \in Threads :
    run[t].kind = "filter" =>
      /\ \A k \in 1..Len(run[t].free_games) :
           \E j \in 1..Len(Items(t)) :
             /\ C3_Rule(Items(t)[j]) /\ "id" \in DOMAIN Items(t)[j]
             /\ Described(Items(t)[j], run[t].free_games[k])
      /\ (/\ Items(t) = <<Promo @@ [id |-> 100],
                          Deep @@ [id |-> 200, name |-> "B"]>>
          /\ "100" \notin DOMAIN sent_games) =>
           run[t].free_games =
             <<[app_id |-> "100", name |-> "Jeu 100",
                url |-> "https://store.steampowered.com/app/100/",
                initial_price |-> [units |-> 5, hundredths |-> 0]]>>

\* The snapshot of the example has been filtered on an empty ledger
C19_Witness ==
  \E t \in Threads :
    /\ run[t].kind = "filter"
    /\ Items(t) = <<Promo @@ [id |-> 100],
                    Deep @@ [id |-> 200, name |-> "B"]>>
    /\ sent_games = <<>>
    /\ Len(run[t].free_games) = 1

\* C20: while a run sends the promotion of its new games, and after, each
\* of these games has its ledger entry, written by a mark_game_as_sent
\* that returned at an earlier time: no send for an id precedes its entry.
C20_MarkedBeforeSent ==
  \A t \in Threads :
    (CheckRun(t) /\ run[t].msg = "promo") =>
      /\ run[t].pc \in {"send", "done"}
      /\ \A id \in GameIds(run[t].new_games) :
           /\ id \in DOMAIN sent_games
           /\ id \in marked
           /\ sent_games[id].sent_at < now

\* Two new games are marked and the first send of the batch is still to
\* come
C20_Witness ==
  \E t \in Threads :
    /\ CheckRun(t) /\ run[t].msg = "promo" /\ run[t].pc = "send"
    /\ run[t].attempted = {}
    /\ Len(run[t].new_games) = 2

\* C21: get_free_games returns no two candidates with the same id, also
\* when the snapshot lists a qualifying id more than once.
C21_OneCandidatePerId ==
  \A t \in Threads :
    run[t].kind = "filter" =>
      \A j \in 1..Len(run[t].free_games), k \in 1..Len(run[t].free_games) :
        j # k => run[t].free_games[j].app_id # run[t].free_games[k].app_id

\* C22: a call of get_free_games leaves the ledger, the recipient set and
\* the file as they were, whatever the fetch gave.
C22_FilterHasNoEffect ==
  [][(run["sched"].pc = "idle" /\ run'["sched"].kind = "filter") =>
       /\ sent_games' = sent_games
       /\ chat_ids' = chat_ids
       /\ file' = file
       /\ marked' = marked]_vars

\* A call has returned candidates, on a store that holds a game
C22_Witness ==
  /\ run["sched"].kind = "filter" /\ run["sched"].pc = "done"
  /\ Len(run["sched"].free_games) = 2
  /\ sent_games # <<>>
  /\ file = Document(sent_games, {})

\* C23: in serial execution, when the write of a mark_game_as_sent or of
\* an add_chat_id has succeeded, the file is the document of the memory:
\* the ledger's entries and the recipients, no more and no less.
C23_WholeDocument ==
  \A t \in Threads :
    run[t].wrote = "ok" =>
      /\ file = Document(sent_games, chat_ids)
      /\ DOMAIN LedgerOf(load_sent_games(file)) = DOMAIN sent_games
      /\ ChatsOf(load_sent_games(file)) = chat_ids

\* The second game of a run has been marked and written, two chats being
\* registered
C23_Witness ==
  \E t \in Threads :
    /\ run[t].wrote = "ok" /\ ~run[t].recovered
    /\ run[t].just_marked # ""
    /\ Cardinality(DOMAIN sent_games) = 2
    /\ chat_ids = Chats

\* C24: a manual check that yields no new promotion ends without an
\* exception and with its 'no promotion' text attempted for every
\* registered chat, whatever sends failed.
C24_NoPromotionTextToAll ==
  \A t \in Threads :
    (run[t].kind = "manual" /\ run[t].pc = "done"
       /\ run[t].new_games = <<>>) =>
      /\ ~run[t].raised
      /\ run[t].todo = {}
      /\ run[t].attempted = chat_ids

\* C25: a run that found no new promotion sends nothing when it is a
\* scheduled one, and attempts its 'no promotion' text once for each
\* registered chat when it is a manual one; no other run sends this text.
C25_NoPromotionTextOnlyManual ==
  \A t \in Threads :
    (CheckRun(t) /\ run[t].pc = "done") =>
      /\ (run[t].kind = "scheduled" /\ run[t].new_games = <<>>) =>
           run[t].attempted = {}
      /\ (run[t].kind = "manual" /\ run[t].new_games = <<>>) =>
           (run[t].msg = "none" /\ run[t].attempted = chat_ids)
      /\ run[t].new_games # <<>> =>
           (run[t].attempted # {} => run[t].msg = "promo")

\* C26: a GET /subscribe/<n> with an integer n ends with n registered and
\* the 200 page written, whether n was registered before or not.
C26_SubscribeAnswered ==
  \A t \in Threads :
    (run[t].kind = "subscribe" /\ run[t].pc = "done") =>
      /\ run[t].chat \in chat_ids
      /\ run[t].wrote = "ok" => run[t].chat \in ChatsOf(load_sent_games(file))
      /\ run[t].status = 200

\* ----------------------------------------------------- scheduled runs
\* A step of the run that thread t is in: its thread executes the next
\* statement. The request of get_free_games has a timeout, the file write
\* and each send end, so a run that can take a step takes it.
RunStep(t) ==
  \/ LoopTest(t)
  \/ \E o \in SaveOutcomes : LoopMark(t, o)
  \/ AfterLoop(t)
  \/ \E c \in Chats, ok \in BOOLEAN : SendStep(t, c, ok)

\* Registrations and scheduled runs, one handler at a time.
NextLive ==
  \/ \E c \in Chats, o \in SaveOutcomes : Subscribe(c, o, TRUE)
  \/ \E t \in {"main", "sched"}, f \in Fetches(ConcEntries) :
       BeginScheduledCheck(t, f, TRUE)
  \/ \E t \in Threads : LoopTest(t)
  \/ \E t \in Threads, o \in SaveOutcomes : LoopMark(t, o)
  \/ \E t \in Threads : AfterLoop(t)
  \/ \E t \in Threads, c \in Chats, ok \in BOOLEAN : SendStep(t, c, ok)
  \/ \E t \in Threads : Return(t)

SpecLive ==
  /\ Init
  /\ [][NextLive]_vars
  /\ \A t \in {"main", "sched"} : WF_vars(RunStep(t))

\* C27: a scheduled run that has its candidates reaches its return,
\* whatever writes and sends fail on the way.
C27_RunTerminates ==
  \A t \in {"main", "sched"} :
    (run[t].kind = "scheduled"
       /\ run[t].pc \in {"loop", "mark", "after_loop", "send"})
      ~> (run[t].pc = "done")

\* A scheduled run has returned after the send to every chat failed
C27_Witness ==
  \E t \in {"main", "sched"} :
    /\ run[t].kind = "scheduled" /\ run[t].pc = "done"
    /\ run[t].attempted = Chats /\ run[t].delivered = {}
    /\ Len(run[t].new_games) = 2

\* ------------------------------------------------- overlapping saves
\* mark_game_as_sent on the main or the scheduler's thread and add_chat_id
\* on the HTTP server's thread, statement by statement: the mutation of the
\* memory, then save_sent_games in two steps. Its dict 'data' refers to
\* the live ledger and holds a copy of the recipients, list(self.chat_ids),
\* taken when the dict is built; the dump comes after. No lock is held.
MarkBegin(t, app_id) ==
  /\ t \in {"main", "sched"}
  /\ Started
  /\ run[t].pc = "idle"
  /\ now < MaxClock
  /\ ~is_game_already_sent(sent_games, app_id)
  /\ sent_games' = mark_entry(sent_games, app_id, "Jeu " \o app_id, now)
  /\ now' = now + 1
  /\ marked' = marked \cup {app_id}
  /\ run' = [run EXCEPT ![t] =
               [Idle EXCEPT !.pc = "save_data", !.kind = "mark",
                            !.just_marked = app_id]]
  /\ UNCHANGED <<chat_ids, file, welcome_tasks, saved, durable>>

AddBegin(chat) ==
  /\ Started
  /\ run["http"].pc = "idle"
  /\ chat_ids' = chat_ids \cup {chat}
  /\ run' = [run EXCEPT !["http"] =
               [Registered(Idle, chat) EXCEPT !.pc = "save_data", !.kind = "add"]]
  /\ UNCHANGED <<sent_games, file, now, welcome_tasks, marked, saved, durable>>

\* data = {"sent_games": ..., "chat_ids": list(self.chat_ids)}
SaveData(t) ==
  /\ run[t].pc = "save_data"
  /\ run' = [run EXCEPT ![t].pc = "save_write",
                        ![t].data = SetToList(chat_ids)]
  /\ UNCHANGED <<sent_games, chat_ids, file, now, welcome_tasks, marked, saved, durable>>

\* open(SENT_GAMES_FILE, 'w') and json.dump(data, f)
SaveWrite(t, outcome) ==
  /\ run[t].pc = "save_write"
  /\ file' = save_sent_games(file, outcome, sent_games, ListToSet(run[t].data))
  /\ saved' = Saved(outcome, sent_games, ListToSet(run[t].data))
  /\ run' = [run EXCEPT ![t].pc = "done", ![t].wrote = outcome]
  /\ UNCHANGED <<sent_games, chat_ids, now, welcome_tasks, marked, durable>>

NextSave ==
  \/ \E t \in {"main", "sched"}, id \in {"100", "200"} : MarkBegin(t, id)
  \/ \E c \in Chats : AddBegin(c)
  \/ \E t \in Threads : SaveData(t)
  \/ \E t \in Threads, o \in SaveOutcomes : SaveWrite(t, o)
  \/ \E t \in Threads : Return(t)

SpecSave == Init /\ [][NextSave]_vars

\* C28: when an add_chat_id on the HTTP thread and a mark_game_as_sent on
\* another thread have both returned, their writes done, the file holds
\* every game and every chat of the memory.
C28_BothMutationsStored ==
  \A t \in {"main", "sched"} :
    (/\ run["http"].kind = "add" /\ run["http"].pc = "done"
     /\ run["http"].wrote = "ok"
     /\ run[t].kind = "mark" /\ run[t].pc = "done" /\ run[t].wrote = "ok") =>
      ~Unsaved

\* C29: a scheduled run's batch is not cut short by a registration made
\* through the HTTP thread while it iterates: when the run is over, no
\* chat that was registered when the batch started is left without a send
\* attempt.
C29_BatchNotCutShort ==
  \A t \in {"main", "sched"} :
    (run[t].kind = "scheduled" /\ run[t].msg = "promo" /\ run[t].pc = "done") =>
      run[t].todo = {}

\* C30: a request GET /subscribe/<x> whose last segment is not an integer
\* is answered with status 400 and changes nothing: the recipients, the
\* ledger and the file stay as they were, no welcome notification is
\* created and nothing is raised.
C30_InvalidSubscribeRejected ==
  [][(run["http"].pc = "idle" /\ run'["http"].kind = "subscribe_invalid") =>
       /\ run'["http"].status = BadRequest
       /\ ~run'["http"].raised
       /\ UNCHANGED <<chat_ids, sent_games, file, welcome_tasks>>]_vars

\* The request was refused in a process that has a chat and a game
C30_Witness ==
  /\ run["http"].kind = "subscribe_invalid" /\ run["http"].pc = "done"
  /\ run["http"].status = BadRequest
  /\ chat_ids # {} /\ marked # {}

====
